---- MODULE Spec2Model ----
(***************************************************************************)
(* The journals application: three content models (Note, Task, Event), the *)
(* JournalItem wrapper that points at one of them through a generic        *)
(* foreign key (content_type, object_id), the owner foreign key, the       *)
(* self-referential parent foreign key with its reverse relation           *)
(* "children", and the get_journal_items view that exercises them.         *)
(*                                                                         *)
(* The database is the state: one set of primary keys per content table,   *)
(* the set of user ids, and the JournalItem table as a function from       *)
(* primary key to row.  Primary keys come from per-table counters that     *)
(* never hand out a key twice.  The data fields of the content models      *)
(* (title, completed, deadline, start_date, end_date) take part in no      *)
(* relation and are left out of the rows.                                  *)
(***************************************************************************)
EXTENDS Integers, Sequences, FiniteSets, TLC

\* Bound of the exploration: the number of rows, over all tables, that the
\* single-row creations may insert (the id counters never exceed it there).
MaxRows == 5

NULL == 0

\* models.py: Note, Task, Event
Classes == {"Note", "Task", "Event"}

\* models.py: JournalItem.NOTE, TASK, EVENT
NOTE == "N"
TASK == "T"
EVENT == "E"

\* models.py: JournalItem.ITEM_TYPES, as the set of (value, label) pairs
ITEM_TYPES == {<<NOTE, "Note">>, <<TASK, "Task">>, <<EVENT, "Event">>}

\* The arguments explored for the single-row creations.  item_type is a
\* CharField whose choices objects.create() does not validate, so a Note is
\* wrapped both as NOTE and as EVENT; the view creates all three classes.
ItemTypeInputs == {NOTE, EVENT}
ClassInputs == {"Note"}

\* The value of a GenericForeignKey that resolves to nothing, and of a
\* content_object argument that is None.
None == [cls |-> "None", pk |-> NULL]

VARIABLES
    users,        \* ids of the rows of the user table
    nextUser,     \* next id of the user table
    content,      \* content[cls]: ids of the rows of table cls
    nextContent,  \* nextContent[cls]: next id of table cls
    items,        \* the JournalItem table: id -> row
    nextItem,     \* next id of the JournalItem table
    last          \* the operation run last, its arguments and its outcome

vars == <<users, nextUser, content, nextContent, items, nextItem, last>>

----
\* Helpers

Restrict(f, S) == [x \in S |-> f[x]]

EmptyItems == [i \in {} |-> NULL]

Min(S) == CHOOSE x \in S : \A y \in S : x <= y

\* The record of the operation run last: its outcome, the ids x and y and
\* the content class k among its arguments, and the number n of rows it
\* deleted (what delete() returns).
Op(op, result, x, y, k, n) ==
    [op |-> op, result |-> result, x |-> x, y |-> y, k |-> k, n |-> n]

----
\* The ORM operations the application uses

\* A JournalItem row (models.py: item_type, owner, content_type, object_id,
\* parent).
Row(item_type, owner, obj, parent) ==
    [item_type |-> item_type, owner |-> owner, content_type |-> obj.cls,
     object_id |-> obj.pk, parent |-> parent]

\* objects.create() with owner declared null=True.
create_fails_owner_nullable(us, owner, obj) ==
    \/ owner # NULL /\ owner \notin us
    \/ obj.cls = "None"
    \/ obj.pk = NULL

\* JournalItem.objects.create(content_object=obj, item_type=..., owner=...)
\* raises when the row breaks a column constraint: owner is a non-null
\* foreign key to an existing user; the generic foreign key stores
\* (content type of obj, obj.pk), both None for obj = None, pk None for an
\* unsaved obj, and content_type and object_id are non-null columns.
create_fails(us, owner, obj) ==
    \/ owner = NULL
    \/ owner \notin us
    \/ obj.cls = "None"
    \/ obj.pk = NULL

\* The table after a successful objects.create(): a new row with no parent.
create(its, id, owner, item_type, obj) ==
    [i \in DOMAIN its \cup {id} |->
        IF i = id THEN Row(item_type, owner, obj, NULL) ELSE its[i]]

\* children.set([child]) in place of add: the other children are detached.
add_as_set(its, parent, child) ==
    [i \in DOMAIN its |->
        IF i = child THEN [its[i] EXCEPT !.parent = parent]
        ELSE IF its[i].parent = parent THEN [its[i] EXCEPT !.parent = NULL]
        ELSE its[i]]

\* add() behind a cycle check: a child that is the parent or one of its
\* ancestors is refused.
RECURSIVE reaches(_, _, _, _)
reaches(its, from, to, n) ==
    IF from = to THEN TRUE
    ELSE IF n = 0 \/ from \notin DOMAIN its THEN FALSE
    ELSE reaches(its, its[from].parent, to, n - 1)

add_checked(its, parent, child) ==
    IF reaches(its, parent, child, Cardinality(DOMAIN its)) THEN its
    ELSE [its EXCEPT ![child].parent = parent]

\* parent.children.add(child): UPDATE ... SET parent_id = parent WHERE id = child
add(its, parent, child) ==
    [its EXCEPT ![child].parent = parent]

\* item.children.all(): the rows whose parent_id is item, as the list the
\* query returns (one element per row; listed here by id).
RECURSIVE rows_in_order(_)
rows_in_order(S) ==
    IF S = {} THEN <<>>
    ELSE LET m == Min(S) IN <<m>> \o rows_in_order(S \ {m})

ListChildren(its, item) ==
    rows_in_order({i \in DOMAIN its : its[i].parent = item})

\* A collector that stops at the seeds' own children.
collect_children_only(its, seen) ==
    seen \cup {i \in DOMAIN its : its[i].parent \in seen}

\* The deletion collector: the rows to delete are the seeds and, through
\* parent's on_delete=CASCADE, every row whose parent is collected.
RECURSIVE collect(_, _)
collect(its, seen) ==
    LET more == {i \in DOMAIN its : its[i].parent \in seen} \ seen
    IN  IF more = {} THEN seen ELSE collect(its, seen \cup more)

\* item.delete() / queryset.delete() on JournalItems
delete_items(its, seeds) ==
    Restrict(its, DOMAIN its \ collect(its, seeds))

\* user.delete() with owner declared on_delete=DO_NOTHING.
delete_owned_do_nothing(its, u) == its

\* user.delete(): owner's on_delete=CASCADE seeds the collector with the
\* user's JournalItems.
delete_owned(its, u) ==
    delete_items(its, {i \in DOMAIN its : its[i].owner = u})

\* instance.delete() on a Note, Task or Event.  No content model declares a
\* GenericRelation, so the collector finds no JournalItem to cascade to.
delete_content(its, cls, id) == its

\* item.content_object: the GenericForeignKey descriptor fetches the row of
\* content_type with pk = object_id, and yields None when there is none.
content_object(ct, row) ==
    IF row.object_id \in ct[row.content_type]
    THEN [cls |-> row.content_type, pk |-> row.object_id]
    ELSE None

\* JournalItem.__str__: the label of item_type taken from ITEM_TYPES by
\* [...][0], then owner.username and content_object.title.
str(ct, row) ==
    LET labels == {p \in ITEM_TYPES : p[1] = row.item_type}
    IN  IF labels = {} THEN "IndexError"
        ELSE IF content_object(ct, row) = None THEN "AttributeError"
        ELSE "ok"

\* get_user_model().objects.first(): the user with the smallest id, or None
first(us) == IF us = {} THEN NULL ELSE Min(us)

\* The view inside one transaction (ATOMIC_REQUESTS): a request that raises
\* leaves the database as it found it.
view_result_atomic(us, ct, nct, its, nit) ==
    IF first(us) = NULL
    THEN [result |-> "error", content |-> ct, nextContent |-> nct,
          items |-> its, nextItem |-> nit]
    ELSE [result |-> "ok",
          content |-> [k \in Classes |->
                         IF k = "Note" THEN {nct[k], nct[k] + 1} ELSE {nct[k]}],
          nextContent |-> [k \in Classes |-> nct[k] + (IF k = "Note" THEN 2 ELSE 1)],
          items |-> add(add(create(create(create(create(EmptyItems,
                        nit, first(us), TASK, [cls |-> "Task", pk |-> nct["Task"]]),
                        nit + 1, first(us), NOTE, [cls |-> "Note", pk |-> nct["Note"]]),
                        nit + 2, first(us), NOTE, [cls |-> "Note", pk |-> nct["Note"] + 1]),
                        nit + 3, first(us), EVENT, [cls |-> "Event", pk |-> nct["Event"]]),
                        nit, nit + 3), nit, nit + 1),
          nextItem |-> nit + 4]

\* views.py: get_journal_items, as the database it leaves.  Every statement
\* commits on its own, so the first objects.create() that raises ends the
\* request with the earlier statements' effects in place.
view_result(us, ct, nct, its, nit) ==
    LET user == first(us)
        task_1 == [cls |-> "Task", pk |-> nct["Task"]]
        note_1 == [cls |-> "Note", pk |-> nct["Note"]]
        note_2 == [cls |-> "Note", pk |-> nct["Note"] + 1]
        event_1 == [cls |-> "Event", pk |-> nct["Event"]]
        j_task_1 == nit
        j_note_1 == nit + 1
        j_note_2 == nit + 2
        j_event_1 == nit + 3
        its0 == delete_items(its, DOMAIN its)
        ct1 == [k \in Classes |->
                  CASE k = "Task" -> {task_1.pk}
                    [] k = "Note" -> {note_1.pk, note_2.pk}
                    [] k = "Event" -> {event_1.pk}]
        nct1 == [k \in Classes |-> nct[k] + (IF k = "Note" THEN 2 ELSE 1)]
        its1 == create(its0, j_task_1, user, TASK, task_1)
        its2 == create(its1, j_note_1, user, NOTE, note_1)
        its3 == create(its2, j_note_2, user, NOTE, note_2)
        its4 == create(its3, j_event_1, user, EVENT, event_1)
        its5 == add(its4, j_task_1, j_event_1)
        its6 == add(its5, j_task_1, j_note_1)
    IN  IF create_fails(us, user, task_1)
        THEN [result |-> "error", content |-> ct1, nextContent |-> nct1,
              items |-> its0, nextItem |-> nit]
        ELSE [result |-> "ok", content |-> ct1, nextContent |-> nct1,
              items |-> its6, nextItem |-> nit + 4]

----
\* Rows inserted so far, over all tables
created ==
    (nextUser - 1) + (nextItem - 1)
    + (nextContent["Note"] - 1) + (nextContent["Task"] - 1) + (nextContent["Event"] - 1)

Init ==
    /\ users = {}
    /\ nextUser = 1
    /\ content = [k \in Classes |-> {}]
    /\ nextContent = [k \in Classes |-> 1]
    /\ items = EmptyItems
    /\ nextItem = 1
    /\ last = Op("init", "ok", NULL, NULL, "", 0)

\* A user is created (by the framework's user model; owner refers to it).
CreateUser ==
    /\ created < MaxRows
    /\ users' = users \cup {nextUser}
    /\ nextUser' = nextUser + 1
    /\ last' = Op("create_user", "ok", nextUser, NULL, "", 0)
    /\ UNCHANGED <<content, nextContent, items, nextItem>>

\* user.delete()
DeleteUser(u) ==
    /\ u \in users
    /\ users' = users \ {u}
    /\ items' = delete_owned(items, u)
    /\ last' = Op("delete_user", "ok", u, NULL, "",
                  1 + Cardinality(DOMAIN items) - Cardinality(DOMAIN items'))
    /\ UNCHANGED <<nextUser, content, nextContent, nextItem>>

\* Note/Task/Event.objects.create(title=...)
CreateContent(cls) ==
    /\ created < MaxRows
    /\ content' = [content EXCEPT ![cls] = @ \cup {nextContent[cls]}]
    /\ nextContent' = [nextContent EXCEPT ![cls] = @ + 1]
    /\ last' = Op("create_content", "ok", NULL, nextContent[cls], cls, 0)
    /\ UNCHANGED <<users, nextUser, items, nextItem>>

\* note.delete(), task.delete(), event.delete()
DeleteContent(cls, id) ==
    /\ id \in content[cls]
    /\ content' = [content EXCEPT ![cls] = @ \ {id}]
    /\ items' = delete_content(items, cls, id)
    /\ last' = Op("delete_content", "ok", NULL, id, cls,
                  1 + Cardinality(DOMAIN items) - Cardinality(DOMAIN items'))
    /\ UNCHANGED <<users, nextUser, nextContent, nextItem>>

\* JournalItem.objects.create(content_object=obj, item_type=item_type, owner=owner)
\* last holds the owner (x) and the content object (k, y) given; the new row
\* has the id nextItem - 1.
CreateJournalItem(owner, item_type, obj) ==
    /\ created < MaxRows
    /\ IF create_fails(users, owner, obj)
       THEN /\ last' = Op("create", "error", owner, obj.pk, obj.cls, 0)
            /\ UNCHANGED <<items, nextItem>>
       ELSE /\ items' = create(items, nextItem, owner, item_type, obj)
            /\ nextItem' = nextItem + 1
            /\ last' = Op("create", "ok", owner, obj.pk, obj.cls, 0)
    /\ UNCHANGED <<users, nextUser, content, nextContent>>

\* parent.children.add(child)
Attach(parent, child) ==
    /\ parent \in DOMAIN items
    /\ child \in DOMAIN items
    /\ items' = add(items, parent, child)
    /\ last' = Op("attach", "ok", parent, child, "", 0)
    /\ UNCHANGED <<users, nextUser, content, nextContent, nextItem>>

\* item.delete()
DeleteJournalItem(item) ==
    /\ item \in DOMAIN items
    /\ items' = delete_items(items, {item})
    /\ last' = Op("delete", "ok", item, NULL, "",
                  Cardinality(DOMAIN items) - Cardinality(DOMAIN items'))
    /\ UNCHANGED <<users, nextUser, content, nextContent, nextItem>>

\* A GET request to get_journal_items
get_journal_items ==
    /\ created <= MaxRows
    /\ LET r == view_result(users, content, nextContent, items, nextItem)
           gone == Cardinality(DOMAIN items)
                   + Cardinality(content["Note"])
                   + Cardinality(content["Task"])
                   + Cardinality(content["Event"])
       IN  /\ content' = r.content
           /\ nextContent' = r.nextContent
           /\ items' = r.items
           /\ nextItem' = r.nextItem
           /\ last' = Op("get_journal_items", r.result, first(users), NULL, "", gone)
    /\ UNCHANGED <<users, nextUser>>

\* The arguments the callers can hold: a user or content instance that was
\* saved at some time (its row may be gone since), an unsaved instance
\* (pk None), or None.
OwnerInputs == {NULL} \cup (1 .. nextUser - 1)

ObjInputs ==
    {None} \cup UNION {{[cls |-> k, pk |-> p] : p \in {NULL} \cup (1 .. nextContent[k] - 1)} :
                       k \in ClassInputs}

\* The operations on the models, one row at a time.
Next ==
    \/ CreateUser
    \/ \E u \in users : DeleteUser(u)
    \/ \E cls \in ClassInputs : CreateContent(cls)
    \/ \E cls \in Classes : \E id \in content[cls] : DeleteContent(cls, id)
    \/ \E owner \in OwnerInputs, item_type \in ItemTypeInputs, obj \in ObjInputs :
          CreateJournalItem(owner, item_type, obj)
    \/ \E parent \in DOMAIN items, child \in DOMAIN items : Attach(parent, child)
    \/ \E item \in DOMAIN items : DeleteJournalItem(item)

Spec == Init /\ [][Next]_vars

\* The view's request on a database that the row operations populated.
ViewNext ==
    \/ CreateUser
    \/ \E u \in users : DeleteUser(u)
    \/ \E cls \in Classes : CreateContent(cls)
    \/ \E cls \in Classes : \E id \in content[cls] : DeleteContent(cls, id)
    \/ \E item \in DOMAIN items : DeleteJournalItem(item)
    \/ get_journal_items

ViewSpec == Init /\ [][ViewNext]_vars

----
\* Vocabulary of the properties

\* The item reached from i by following parent n times (None past a root)
RECURSIVE nth_parent(_, _, _)
nth_parent(its, i, n) ==
    IF n = 0 THEN i
    ELSE IF i \notin DOMAIN its THEN NULL
    ELSE nth_parent(its, its[i].parent, n - 1)

\* i and every item from which i is reached through parent
Descendants(its, i) ==
    {d \in DOMAIN its :
        \E n \in 0 .. Cardinality(DOMAIN its) : nth_parent(its, d, n) = i}

HasCycle(its) ==
    \E i \in DOMAIN its :
        \E n \in 1 .. Cardinality(DOMAIN its) : nth_parent(its, i, n) = i

Count(seq, x) == Cardinality({k \in 1 .. Len(seq) : seq[k] = x})

Dangling(row) == row.object_id \notin content[row.content_type]

Mismatched(row) == <<row.item_type, row.content_type>> \notin ITEM_TYPES

\* C1: in every reachable state, content_object of every stored JournalItem
\* is a content entity whose model is the one item_type names.
C1_ContentMatchesItemType ==
    \A i \in DOMAIN items :
        LET e == content_object(content, items[i])
        IN  e # None /\ <<items[i].item_type, e.cls>> \in ITEM_TYPES

\* C2: right after a content entity is deleted, no stored JournalItem has
\* (content_type, object_id) pointing to it.
C2_ContentDeleteCascades ==
    last.op = "delete_content" =>
        \A i \in DOMAIN items :
            ~(items[i].content_type = last.k /\ items[i].object_id = last.y)

\* C3: deleting a JournalItem removes exactly the item and its descendants
\* at any depth, and leaves every other row as it was.
C3_DeleteRemovesDescendants ==
    [][last'.op = "delete" =>
          /\ last'.x \in DOMAIN items
          /\ DOMAIN items' = DOMAIN items \ Descendants(items, last'.x)
          /\ \A j \in DOMAIN items' : items'[j] = items[j]]_vars

C3_Witness ==
    /\ last.op = "delete"
    /\ last.n >= 2
    /\ DOMAIN items # {}

\* C4: after parent.children.add(child), child.parent is parent and
\* ListChildren(parent) holds child exactly once; every item that was a
\* child of parent before the call (child itself on a repeated call, or a
\* child attached earlier) still is, and is listed exactly once.
C4_AttachListsChildOnce ==
    [][last'.op = "attach" =>
          LET parent == last'.x
              child == last'.y
              listed == ListChildren(items', parent)
          IN  /\ items'[child].parent = parent
              /\ Count(listed, child) = 1
              /\ \A d \in DOMAIN items :
                    items[d].parent = parent =>
                        /\ items'[d].parent = parent
                        /\ Count(listed, d) = 1]_vars

C4_Witness ==
    /\ last.op = "attach"
    /\ items[last.y].parent = last.x
    /\ Len(ListChildren(items, last.x)) >= 2
    /\ Count(ListChildren(items, last.x), last.y) = 1

\* C5: a JournalItem is stored only when its item_type names the model of
\* the content entity given: a create with a mismatched item_type does not
\* succeed.
C5_MismatchRejected ==
    (last.op = "create" /\ last.result = "ok") =>
        <<items[nextItem - 1].item_type, last.k>> \in ITEM_TYPES

\* C6: a create whose owner is None, or whose content entity is None or
\* unsaved, fails and adds no JournalItem.
C6_CreateFailsWhenAbsent ==
    [][(last'.op = "create"
        /\ (last'.x = NULL \/ last'.k = "None" \/ last'.y = NULL)) =>
          /\ last'.result = "error"
          /\ items' = items
          /\ nextItem' = nextItem]_vars

C6_Witness ==
    /\ last.op = "create"
    /\ last.result = "error"
    /\ users = {}
    /\ last.x = NULL
    /\ last.k \in Classes
    /\ last.y \in content[last.k]

\* C7: every stored JournalItem has an owner that exists (deleting a user
\* removes the items the user owns).
C7_OwnerExists ==
    \A i \in DOMAIN items : items[i].owner \in users

C7_Witness ==
    /\ last.op = "delete_user"
    /\ last.n >= 2
    /\ DOMAIN items # {}

\* C8: reading the content of a JournalItem whose reference is dangling, or
\* whose item_type disagrees with the stored reference, raises.
C8_BadReferenceRaises ==
    \A i \in DOMAIN items :
        (Dangling(items[i]) \/ Mismatched(items[i])) =>
            str(content, items[i]) # "ok"

\* C9: children.add succeeds for any two stored items and sets
\* child.parent = parent; when child is parent or an ancestor of parent the
\* parent relation has a cycle afterwards.
C9_AttachMakesCycles ==
    [][last'.op = "attach" =>
          /\ last'.result = "ok"
          /\ items'[last'.y].parent = last'.x
          /\ (last'.x \in Descendants(items, last'.y) => HasCycle(items'))]_vars

C9_Witness ==
    /\ last.op = "attach"
    /\ last.x # last.y
    /\ items[last.y].parent = last.x
    /\ last.x \in Descendants(items, last.y)
    /\ HasCycle(items)

\* C10: when no user exists the view's request fails at its first
\* JournalItem, the rows its opening deletes removed stay removed, and the
\* four content entities it created stay stored with no JournalItem.
C10_ViewNotAtomic ==
    [][(last'.op = "get_journal_items" /\ users = {}) =>
          /\ last'.result = "error"
          /\ DOMAIN items' = {}
          /\ \A k \in Classes : content'[k] \cap content[k] = {}
          /\ Cardinality(content'["Task"]) = 1
          /\ Cardinality(content'["Note"]) = 2
          /\ Cardinality(content'["Event"]) = 1]_vars

C10_Witness ==
    /\ last.op = "get_journal_items"
    /\ last.result = "error"
    /\ last.n > 0
    /\ DOMAIN items = {}
    /\ Cardinality(content["Note"]) = 2

====
